---- MODULE Spec2Model ----
(***************************************************************************)
(* Model of brian2tools/mdexport/expander.py: the class Std_mdexpander,    *)
(* which turns the "standard dictionary" of a Brian network into markdown. *)
(*                                                                         *)
(* Conventions of the model                                                *)
(*  - A Python str that is being assembled is a sequence of chunks (TLA+   *)
(*    strings); `+` on str is concatenation of chunk sequences, and the    *)
(*    empty str is the empty sequence.                                     *)
(*  - A Python call either returns or raises: a result is a record         *)
(*    [err |-> "", txt |-> chunks] or [err |-> "<exception>", txt |-> <<>>]*)
(*    and Cat propagates the first exception, left to right, as Python     *)
(*    evaluates a + b + c.                                                 *)
(*  - A dict is a TLA+ record; `'k' in d` is "k" \in DOMAIN d.  A dict     *)
(*    that is iterated (.items()) is a sequence of [k |-> key, v |-> value]*)
(*    in the mapping's order.                                              *)
(*  - A value whose Python type varies (bool, str, int, None, list, numpy  *)
(*    array) is a tagged record, see PyBool .. PyArr.                      *)
(***************************************************************************)
EXTENDS Integers, Sequences, FiniteSets, TLC

VARIABLES
    github_md,  \* attribute self.github_md: [set |-> BOOLEAN, val |-> BOOLEAN]
    md_text,    \* attribute self.md_text:   [set |-> BOOLEAN, val |-> chunks]
    call,       \* the most recent method call: [op, arg, res], res what it returned
                \* ([err, txt]; [err, val] for check_plural) or raised
    last_ok,    \* history: what the last create_md_string that returned, returned
    probe,      \* history: a create_md_string call that was kept, [set, old, arg, res];
                \* old says that create_md_string was called again since
    std_dict    \* the dictionary the caller passed to the most recent call, as the
                \* call left it (call.arg is what it was when the call was made)

vars == <<github_md, md_text, call, last_ok, probe, std_dict>>

(***************************************************************************)
(* Python values                                                           *)
(***************************************************************************)
PyNone == [t |-> "none"]
PyBool(b) == [t |-> "bool", b |-> b]
PyStr(s) == [t |-> "str", s |-> s]
PyInt(n) == [t |-> "int", n |-> n]
PyList(l) == [t |-> "list", l |-> l]
PyArr(l) == [t |-> "ndarray", l |-> l]
PyDict(l) == [t |-> "dict", l |-> l]
PyQuantity(s) == [t |-> "quantity", s |-> s]
\* a dict that is read by key only (a TimedArray or function identifier)
PyRecord(d) == [t |-> "dict", d |-> d]

\* a str object together with its identity: `interned` says whether the object
\* is the one CPython keeps for an equal literal of the source (x is 'lit')
PyLit(s) == [s |-> s, interned |-> TRUE]
PyBuilt(s) == [s |-> s, interned |-> FALSE]

\* x is 'lit': identity, not equality, of two str objects
Is(x, lit) == x.s = lit /\ x.interned

\* hasattr(v, '__iter__')
HasIter(v) == v.t \in {"str", "list", "ndarray", "dict"}

\* hasattr(v, name): of the names the code asks for, objects have '__iter__' only
HasAttr(v, name) == name = "__iter__" /\ HasIter(v)

\* the elements a for-loop over v visits (the characters of a str one by one)
RECURSIVE Chars(_, _)
Chars(s, n) == IF n = 0 THEN <<>> ELSE Append(Chars(s, n - 1), "c")

Items(v) ==
    CASE v.t = "list" -> v.l
      [] v.t = "ndarray" -> v.l
      [] v.t = "dict" -> v.l
      [] v.t = "str" -> Chars(v.s, Len(v.s))
      [] OTHER -> <<>>

\* bool(v), the truth value an `if v:` tests
Truthy(v) ==
    CASE v.t = "none" -> FALSE
      [] v.t = "bool" -> v.b
      [] v.t = "str" -> v.s # ""
      [] v.t = "int" -> v.n # 0
      [] v.t = "quantity" -> TRUE
      [] OTHER -> v.l # <<>>

(***************************************************************************)
(* Results: return or raise                                                *)
(***************************************************************************)
Ok(txt) == [err |-> "", txt |-> txt]
Raise(e) == [err |-> e, txt |-> <<>>]
Raised(r) == r.err # ""

\* a str literal or str value as text
S(s) == IF s = "" THEN Ok(<<>>) ELSE Ok(<<s>>)

\* a + b
Cat(a, b) ==
    IF Raised(a) THEN a
    ELSE IF Raised(b) THEN b
    ELSE Ok(a.txt \o b.txt)

\* a1 + a2 + ... + an
RECURSIVE CatAll(_)
CatAll(rs) == IF rs = <<>> THEN Ok(<<>>) ELSE Cat(Head(rs), CatAll(Tail(rs)))

\* d[k] for every k of keys is evaluated by body: a missing key raises KeyError
Requires(d, keys, body) ==
    IF keys \subseteq DOMAIN d THEN body ELSE Raise("KeyError")

endll == "\n\n"
endl == "\n"
tab == "\t"

\* str(v)
RECURSIVE JoinStr(_, _)
JoinStr(sep, strs) ==
    IF strs = <<>> THEN ""
    ELSE IF Len(strs) = 1 THEN Head(strs)
    ELSE Head(strs) \o sep \o JoinStr(sep, Tail(strs))

Str(v) ==
    CASE v.t = "none" -> "None"
      [] v.t = "bool" -> IF v.b THEN "True" ELSE "False"
      [] v.t = "str" -> v.s
      [] v.t = "quantity" -> v.s
      [] v.t = "int" -> ToString(v.n)
      [] v.t = "list" -> "[" \o JoinStr(", ", [i \in DOMAIN v.l |-> ToString(v.l[i])]) \o "]"
      [] OTHER -> "[" \o JoinStr(" ", [i \in DOMAIN v.l |-> ToString(v.l[i])]) \o "]"

\* sep.join(str(x) for x in xs), xs a sequence of integers
JoinInts(sep, xs) == S(JoinStr(sep, [i \in DOMAIN xs |-> ToString(xs[i])]))

(***************************************************************************)
(* markdown_strings: bold, header, horizontal_rule (string templates)      *)
(***************************************************************************)
bold(r) == CatAll(<<S("**"), r, S("**")>>)

RECURSIVE Hashes(_)
Hashes(level) == IF level = 0 THEN "" ELSE "#" \o Hashes(level - 1)

header(r, level) == Cat(S(Hashes(level) \o " "), r)

horizontal_rule == S("---")

\* the indentation a `\`-continued str literal keeps from its second line
RECURSIVE Spaces(_)
Spaces(n) == IF n = 0 THEN "" ELSE " " \o Spaces(n - 1)

(***************************************************************************)
(* check_plural                                                            *)
(***************************************************************************)
singular_plural_dict == [index |-> "indices", property |-> "properties"]

\* variant of check_plural_loop: `count > 0` for `count > 1`
RECURSIVE check_plural_loop_from_one(_, _, _)
check_plural_loop_from_one(items, count, singular_word) ==
    IF items = <<>> THEN [err |-> "", val |-> ""]
    ELSE IF count + 1 > 0
         THEN IF Truthy(singular_word)
              THEN IF singular_word.s \in DOMAIN singular_plural_dict
                   THEN [err |-> "", val |-> singular_plural_dict[singular_word.s]]
                   ELSE [err |-> "Exception", val |-> ""]
              ELSE [err |-> "", val |-> "s"]
         ELSE check_plural_loop_from_one(Tail(items), count + 1, singular_word)

\* the for-loop of check_plural over the elements still to visit, with the
\* count so far; [err, val]: val is the str returned
RECURSIVE check_plural_loop(_, _, _)
check_plural_loop(items, count, singular_word) ==
    IF items = <<>> THEN [err |-> "", val |-> ""]
    ELSE IF count + 1 > 1
         THEN IF Truthy(singular_word)
              THEN IF singular_word.s \in DOMAIN singular_plural_dict
                   THEN [err |-> "", val |-> singular_plural_dict[singular_word.s]]
                   ELSE [err |-> "Exception", val |-> ""]
              ELSE [err |-> "", val |-> "s"]
         ELSE check_plural_loop(Tail(items), count + 1, singular_word)

\* variant of check_plural: allow_constants is not looked at
check_plural_any_constant(iterable, singular_word, allow_constants) ==
    IF HasIter(iterable)
    THEN check_plural_loop(Items(iterable), 0, singular_word)
    ELSE [err |-> "", val |-> ""]

check_plural(iterable, singular_word, allow_constants) ==
    IF HasIter(iterable)
    THEN check_plural_loop(Items(iterable), 0, singular_word)
    ELSE IF ~allow_constants
         THEN [err |-> "IndexError", val |-> ""]
         ELSE [err |-> "", val |-> ""]

\* check_plural(x) with the defaults, as text
Plural(iterable) ==
    LET r == check_plural(iterable, PyNone, TRUE)
    IN  IF r.err # "" THEN Raise(r.err) ELSE S(r.val)

\* check_plural(x, word), as text
PluralOf(iterable, word) ==
    LET r == check_plural(iterable, PyStr(word), TRUE)
    IN  IF r.err # "" THEN Raise(r.err) ELSE S(r.val)

(***************************************************************************)
(* render_expression                                                       *)
(***************************************************************************)
\* sympy's latex() of the expression, without the `$$` around it
Tex(expression, differential) ==
    IF differential THEN "\\frac{d}{d t} " \o expression ELSE expression

\* gm is the attribute self.github_md at the time of the call
render_expression(expression, differential, gm) ==
    IF ~gm.set THEN Raise("AttributeError")
    ELSE IF gm.val
         THEN Ok(<<"<img src=\"https://render.githubusercontent.com/render/math?math=",
                   Tex(expression, differential), "\">">>)
         ELSE Ok(<<"$", Tex(expression, differential), "$">>)

render(expression, gm) == render_expression(expression, FALSE, gm)

(***************************************************************************)
(* prepare_math_statements                                                 *)
(*                                                                         *)
(* The `statements` str is a sequence of pieces: each of the characters    *)
(* ";", "\n", "=", "+", "-" is a piece of its own, any other piece is a    *)
(* run of characters with none of these in it.                             *)
(***************************************************************************)
\* re.split(';|\n', statements): the fields between the separators
RECURSIVE SplitLines(_, _)
SplitLines(pieces, field) ==
    IF pieces = <<>> THEN <<field>>
    ELSE IF Head(pieces) \in {";", "\n"}
         THEN <<field>> \o SplitLines(Tail(pieces), <<>>)
         ELSE SplitLines(Tail(pieces), Append(field, Head(pieces)))

\* re.split('-=|\+=|=', statement)
RECURSIVE SplitAssign(_, _)
SplitAssign(pieces, field) ==
    IF pieces = <<>> THEN <<field>>
    ELSE IF Head(pieces) \in {"-", "+"} /\ Len(pieces) > 1 /\ pieces[2] = "="
         THEN <<field>> \o SplitAssign(Tail(Tail(pieces)), <<>>)
         ELSE IF Head(pieces) = "="
              THEN <<field>> \o SplitAssign(Tail(pieces), <<>>)
              ELSE SplitAssign(Tail(pieces), Append(field, Head(pieces)))

\* '+=' in statement, '-=' in statement, '=' in statement
HasOp(statement, sign) ==
    \E i \in 1..(Len(statement) - 1) : statement[i] = sign /\ statement[i + 1] = "="

HasEq(statement) == \E i \in 1..Len(statement) : statement[i] = "="

\* the str of a field
Text(pieces) == JoinStr("", pieces)

\* rend_str[:-2]: every statement appended ', ' last, so the two characters
\* removed are that chunk
StripLast2(r) ==
    IF Raised(r) \/ r.txt = <<>> THEN r
    ELSE Ok(SubSeq(r.txt, 1, Len(r.txt) - 1))

\* one statement of the loop of prepare_math_statements, with its ', '
render_statement(statement, differential, separate, equals, gm) ==
    Cat(IF separate
        THEN IF HasEq(statement)
             THEN LET parts == SplitAssign(statement, <<>>)
                  IN  IF Len(parts) # 2 THEN Raise("ValueError")
                      ELSE CatAll(<<render(Text(parts[1]), gm),
                                    S(IF HasOp(statement, "+") THEN "+="
                                      ELSE IF HasOp(statement, "-") THEN "-="
                                      ELSE equals),
                                    render(Text(parts[2]), gm)>>)
             ELSE Ok(<<>>)
        ELSE render_expression(Text(statement), differential, gm),
        S(", "))

prepare_math_statements(statements, differential, separate, equals, gm) ==
    LET list_eqns == SplitLines(statements, <<>>)
    IN  StripLast2(CatAll([i \in DOMAIN list_eqns |->
            render_statement(list_eqns[i], differential, separate, equals, gm)]))

\* prepare_math_statements(code, separate=True)
math_statements(code, gm) == prepare_math_statements(code, FALSE, TRUE, "&#8592;", gm)

(***************************************************************************)
(* identifiers, events, equations, run_regularly                           *)
(***************************************************************************)
expand_identifier(ident_key, ident_value, gm) ==
    Cat(IF ident_value.t # "dict"
        THEN CatAll(<<render(ident_key, gm), S(": "), render(Str(ident_value), gm)>>)
        ELSE Cat(CatAll(<<render(ident_key, gm), S(" of type "), S(ident_value.d.type.s)>>),
                 IF Is(ident_value.d.type, "timedarray")
                 THEN CatAll(<<S(" with dimension "), render(ident_value.d.ndim, gm),
                               S(" and dt as "), render(ident_value.d.dt, gm)>>)
                 ELSE Ok(<<>>)),
        S(", "))

expand_identifiers(identifiers, gm) ==
    CatAll(<<S(tab),
             StripLast2(CatAll([i \in DOMAIN identifiers |->
                 expand_identifier(identifiers[i].k, identifiers[i].v, gm)])),
             S(endll)>>)

expand_event(event_name, event_details, gm) ==
    CatAll(<<S(tab), S("Event "), bold(S(event_name)), S(", "),
             S("after "), render(event_details.threshold.code, gm),
             IF "reset" \in DOMAIN event_details
             THEN Cat(S(", "), math_statements(event_details.reset.code, gm))
             ELSE Ok(<<>>),
             IF "refractory" \in DOMAIN event_details
             THEN Cat(S(", with refractory "), render(event_details.refractory, gm))
             ELSE Ok(<<>>),
             S(endll)>>)

expand_events(events, gm) ==
    CatAll([i \in DOMAIN events |-> expand_event(events[i].k, events[i].v, gm)])

expand_equation(var, equation, gm) ==
    CatAll(<<S(tab),
             IF equation.type = "differential equation"
             THEN render_expression(var, TRUE, gm)
             ELSE IF equation.type = "subexpression"
                  THEN render(var, gm)
                  ELSE Cat(S("Parameter "), render(var, gm)),
             IF "expr" \in DOMAIN equation
             THEN Cat(S("="), render(equation.expr, gm))
             ELSE Ok(<<>>),
             S(", where unit of "), render(var, gm), S(" is "), S(equation.unit),
             IF "flags" \in DOMAIN equation
             THEN CatAll(<<S(" and "), S(JoinStr(", ", equation.flags)),
                           S(" as flag"), Plural(PyList(equation.flags)),
                           S(" associated")>>)
             ELSE Ok(<<>>),
             S(endll)>>)

expand_equations(equations, gm) ==
    CatAll([i \in DOMAIN equations |-> expand_equation(equations[i].k, equations[i].v, gm)])

expand_runregularly(run_reg, gm) ==
    Requires(run_reg, {"dt", "code"},
        CatAll(<<S(tab), S("For every "), render(run_reg.dt, gm), S(" code: "),
                 math_statements(run_reg.code, gm),
                 S(" will be executed"), S(endll)>>))

\* for run_reg in obj['run_regularly']: md_str += self.expand_runregularly(run_reg)
expand_runregularly_all(run_regs, gm) ==
    CatAll([i \in DOMAIN run_regs |-> expand_runregularly(run_regs[i], gm)])

(***************************************************************************)
(* The expand functions of the components                                  *)
(***************************************************************************)
\* sep.join([...]) of rendered texts
RECURSIVE JoinR(_, _)
JoinR(sep, rs) ==
    IF rs = <<>> THEN Ok(<<>>)
    ELSE IF Len(rs) = 1 THEN Head(rs)
    ELSE CatAll(<<Head(rs), S(sep), JoinR(sep, Tail(rs))>>)

\* tab + bold('Constants:') + endll + expand_identifiers, if 'identifiers' in obj
ConstantsPart(obj, gm) ==
    IF "identifiers" \in DOMAIN obj
    THEN CatAll(<<S(tab), bold(S("Constants:")), S(endll),
                  expand_identifiers(obj.identifiers, gm)>>)
    ELSE Ok(<<>>)

\* tab + bold('Run regularly: ') + endll + the run_regularly entries
RunRegularlyPart(obj, gm) ==
    IF "run_regularly" \in DOMAIN obj
    THEN CatAll(<<S(tab), bold(S("Run regularly: ")), S(endll),
                  expand_runregularly_all(obj.run_regularly, gm)>>)
    ELSE Ok(<<>>)

\* the `if neurongrp['user_method']:` sentence of expand_NeuronGroup
NeuronGroupMethod(neurongrp) ==
    IF Truthy(neurongrp.user_method)
    THEN CatAll(<<S(tab), S(neurongrp.user_method.s),
                  S(" method is used for integration"), S(endll)>>)
    ELSE Ok(<<>>)

\* variant of expand_NeuronGroup: the constants come before the events and the
\* run_regularly entries are expanded last to first
expand_NeuronGroup_reordered(neurongrp, gm) ==
    Requires(neurongrp, {"name", "N", "equations", "user_method"},
        CatAll(<<S("Name "), bold(S(neurongrp.name)),
                 S(", with " \o Spaces(16) \o "population size "),
                 bold(S(ToString(neurongrp.N))), S("."), S(endll),
                 S(tab), bold(S("Dynamics:")), S(endll),
                 expand_equations(neurongrp.equations, gm),
                 NeuronGroupMethod(neurongrp),
                 ConstantsPart(neurongrp, gm),
                 IF "events" \in DOMAIN neurongrp
                 THEN CatAll(<<S(tab), bold(S("Events:")), S(endll),
                               expand_events(neurongrp.events, gm)>>)
                 ELSE Ok(<<>>),
                 IF "run_regularly" \in DOMAIN neurongrp
                 THEN CatAll(<<S(tab), bold(S("Run regularly")),
                               Plural(PyList(neurongrp.run_regularly)), S(": "), S(endll),
                               CatAll([i \in DOMAIN neurongrp.run_regularly |->
                                   expand_runregularly(neurongrp.run_regularly[
                                       Len(neurongrp.run_regularly) + 1 - i], gm)])>>)
                 ELSE Ok(<<>>)>>))

expand_NeuronGroup(neurongrp, gm) ==
    Requires(neurongrp, {"name", "N", "equations", "user_method"},
        CatAll(<<S("Name "), bold(S(neurongrp.name)),
                 S(", with " \o Spaces(16) \o "population size "),
                 bold(S(ToString(neurongrp.N))), S("."), S(endll),
                 S(tab), bold(S("Dynamics:")), S(endll),
                 expand_equations(neurongrp.equations, gm),
                 NeuronGroupMethod(neurongrp),
                 IF "events" \in DOMAIN neurongrp
                 THEN CatAll(<<S(tab), bold(S("Events:")), S(endll),
                               expand_events(neurongrp.events, gm)>>)
                 ELSE Ok(<<>>),
                 ConstantsPart(neurongrp, gm),
                 IF "run_regularly" \in DOMAIN neurongrp
                 THEN CatAll(<<S(tab), bold(S("Run regularly")),
                               Plural(PyList(neurongrp.run_regularly)), S(": "), S(endll),
                               expand_runregularly_all(neurongrp.run_regularly, gm)>>)
                 ELSE Ok(<<>>)>>))

expand_PoissonGroup(poisngrp, gm) ==
    Requires(poisngrp, {"name", "N", "rates"},
        CatAll(<<S(tab), S("Name "), bold(S(poisngrp.name)),
                 S(", with " \o Spaces(16) \o "population size "),
                 bold(S(ToString(poisngrp.N))),
                 S(" and rate as "), render(poisngrp.rates, gm),
                 S("."), S(endll),
                 ConstantsPart(poisngrp, gm),
                 RunRegularlyPart(poisngrp, gm)>>))

expand_SpikeGeneratorGroup(spkgen, gm) ==
    Requires(spkgen, {"name", "N", "indices", "times", "period"},
        CatAll(<<S(tab), S("Name "), bold(S(spkgen.name)),
                 S(", with population size "), bold(S(ToString(spkgen.N))),
                 S(", has neuron"), Plural(PyList(spkgen.indices)), S(": "),
                 JoinInts(", ", spkgen.indices),
                 S(" that spike at times "),
                 S(JoinStr(", ", spkgen.times)),
                 S(", with period "), S(spkgen.period),
                 S("."), S(endll),
                 RunRegularlyPart(spkgen, gm)>>))

\* 'Monitors variable(s): ... of <source>', shared text of the monitors
MonitorHead(mon, gm) ==
    CatAll(<<S(tab), S("Monitors variable"), Plural(PyList(mon.variables)), S(": "),
             JoinR(",", [i \in DOMAIN mon.variables |-> render(mon.variables[i], gm)]),
             S(" of "), S(mon.source)>>)

expand_StateMonitor(statemon, gm) ==
    Requires(statemon, {"variables", "source", "record"},
        Cat(MonitorHead(statemon, gm),
            IF statemon.record.t = "bool"
            THEN IF statemon.record.b THEN S(" for all members") ELSE Ok(<<>>)
            ELSE IF statemon.record.t # "ndarray" THEN Raise("AttributeError")
            ELSE IF statemon.record.l = <<>> THEN S(" for no member")
            ELSE CatAll(<<S(", for member"), Plural(statemon.record), S(": "),
                          JoinInts(",", statemon.record.l), S("."), S(endll)>>)))

expand_EventMonitor(eventmon, gm) ==
    Requires(eventmon, {"variables", "source", "record"},
        CatAll(<<MonitorHead(eventmon, gm),
                 IF eventmon.record.t = "bool"
                 THEN IF eventmon.record.b THEN S(" for all members") ELSE Ok(<<>>)
                 ELSE IF eventmon.record.t # "ndarray" THEN Raise("AttributeError")
                 ELSE IF eventmon.record.l = <<>> THEN S(" for no member")
                 ELSE CatAll(<<S(", for member"), Plural(eventmon.record), S(": "),
                               JoinInts(",", eventmon.record.l)>>),
                 IF "event" \in DOMAIN eventmon
                 THEN CatAll(<<S(" when event "), bold(S(eventmon.event)),
                               S(" is triggered."), S(endll)>>)
                 ELSE Raise("KeyError")>>))

\* variant of expand_SpikeMonitor: the spike monitor is described as a state
\* monitor is
expand_SpikeMonitor_as_state(spikemon, gm) == expand_StateMonitor(spikemon, gm)

expand_SpikeMonitor(spikemon, gm) == expand_EventMonitor(spikemon, gm)

expand_PopulationRateMonitor(popratemon, gm) ==
    Requires(popratemon, {"source"},
        CatAll(<<S(tab), S("Monitors the population of "), S(popratemon.source),
                 S("."), S(endll)>>))

expand_pathway(pathway, gm) ==
    Requires(pathway, {"prepost", "event", "code"},
        CatAll(<<S(tab), S("On "), bold(S(pathway.prepost)),
                 S(" of event "), S(pathway.event), S(" statements: "),
                 math_statements(pathway.code, gm),
                 S(" executed"),
                 IF "delay" \in DOMAIN pathway
                 THEN Cat(S(", with synaptic delay of "), render(pathway.delay, gm))
                 ELSE Ok(<<>>),
                 S(endll)>>))

expand_pathways(pathways, gm) ==
    CatAll([i \in DOMAIN pathways |-> expand_pathway(pathways[i], gm)])

expand_summed_variable(sum_variable, gm) ==
    Requires(sum_variable, {"target", "code"},
        CatAll(<<S(tab), S("Updates target group "), S(sum_variable.target),
                 S(" with statement: "), render(sum_variable.code, gm),
                 S(endll)>>))

expand_summed_variables(sum_variables, gm) ==
    CatAll([i \in DOMAIN sum_variables |-> expand_summed_variable(sum_variables[i], gm)])

\* the `if 'user_method' in synapse:` sentence of expand_Synapses; str + None
\* raises TypeError
SynapsesMethod(synapse) ==
    IF "user_method" \in DOMAIN synapse
    THEN IF synapse.user_method.t # "str" THEN Raise("TypeError")
         ELSE CatAll(<<S(tab), S(synapse.user_method.s),
                       S(" method is used for integration"), S(endll)>>)
    ELSE Ok(<<>>)

expand_Synapses(synapse, gm) ==
    Requires(synapse, {"source", "target"},
        CatAll(<<S(tab), S("From "), S(synapse.source), S(" to "), S(synapse.target),
                 S(endll),
                 IF "equations" \in DOMAIN synapse
                 THEN CatAll(<<S(tab), bold(S("Dynamics:")), S(endll),
                               S(tab), expand_equations(synapse.equations, gm),
                               SynapsesMethod(synapse)>>)
                 ELSE Ok(<<>>),
                 IF "pathways" \in DOMAIN synapse
                 THEN CatAll(<<S(tab), bold(S("Pathways:")), S(endll),
                               expand_pathways(synapse.pathways, gm)>>)
                 ELSE Ok(<<>>),
                 IF "summed_variables" \in DOMAIN synapse
                 THEN CatAll(<<S(tab), bold(S("Summed variables: ")), S(endll),
                               expand_summed_variables(synapse.summed_variables, gm)>>)
                 ELSE Ok(<<>>),
                 ConstantsPart(synapse, gm)>>))

expand_PoissonInput(poinp, gm) ==
    Requires(poinp, {"N", "target_var", "rate", "weight"},
        CatAll(<<S(tab), S("PoissonInput with size "), bold(S(ToString(poinp.N))),
                 S(" gives input to variable "), render(poinp.target_var, gm),
                 S(" with rate "), render(poinp.rate, gm),
                 S(" and weight of "), render(poinp.weight, gm),
                 S(endll),
                 ConstantsPart(poinp, gm)>>))

(***************************************************************************)
(* expand_initializer, expand_connector                                    *)
(***************************************************************************)
\* the index phrase of expand_initializer
InitializerIndex(index) ==
    IF index.t = "str" /\ index.s # "True" /\ index.s # "False"
    THEN Cat(S(" on condition "), S(index.s))
    ELSE IF index.t = "bool" \/ (index.t = "str" /\ index.s \in {"True", "False"})
         THEN IF Truthy(index) \/ (index.t = "str" /\ index.s = "True")
              THEN S(" to all members")
              ELSE S(" to no member")
         ELSE CatAll(<<S(" to member"), Plural(index), S(" "),
                       IF ~HasAttr(index, "__iter___")
                       THEN S(Str(index))
                       ELSE JoinInts(",", Items(index))>>)

expand_initializer(initializer, gm) ==
    Requires(initializer, {"variable", "source", "value", "index"},
        CatAll(<<S("Variable "), render(initializer.variable, gm),
                 S(" of "), S(initializer.source), S(" initialized with "),
                 render(initializer.value, gm),
                 InitializerIndex(initializer.index),
                 IF "identifiers" \in DOMAIN initializer
                 THEN CatAll(<<S(". Identifier"), Plural(PyDict(initializer.identifiers)),
                               S(" associated: "),
                               expand_identifiers(initializer.identifiers, gm)>>)
                 ELSE Ok(<<>>),
                 S(endll)>>))

\* the listing of connector['i'] or connector['j'] that is not a str
ConnectorIndices(ind) ==
    IF HasAttr(ind, "__iter__") THEN JoinInts(", ", Items(ind)) ELSE S(Str(ind))

\* x != 1
NotOne(v) == ~((v.t = "int" /\ v.n = 1) \/ (v.t = "bool" /\ v.b))

\* variant of ConnectorPattern: 'j' is looked for before 'i'
ConnectorPattern_j_first(connector, gm) ==
    IF "j" \in DOMAIN connector
    THEN Cat(S(". Connection for all members in source group"),
             IF connector.j.t # "str"
             THEN CatAll(<<S(" to target group "), PluralOf(connector.j, "index"), S(": "),
                           ConnectorIndices(connector.j)>>)
             ELSE Cat(S(" to target group with generator syntax "), S(connector.j.s)))
    ELSE IF "i" \in DOMAIN connector
    THEN CatAll(<<S(". From source group "), PluralOf(connector.i, "index"), S(": "),
                  IF connector.i.t # "str"
                  THEN ConnectorIndices(connector.i)
                  ELSE Cat(S(" with generator syntax "), S(connector.i.s)),
                  S(" to all target group members")>>)
    ELSE IF "condition" \in DOMAIN connector
    THEN Cat(S(" with condition "), render(connector.condition, gm))
    ELSE Ok(<<>>)

\* the connectivity description of expand_connector: 'i', else 'j', else 'condition'
ConnectorPattern(connector, gm) ==
    IF "i" \in DOMAIN connector
    THEN CatAll(<<S(". From source group "), PluralOf(connector.i, "index"), S(": "),
                  IF connector.i.t # "str"
                  THEN ConnectorIndices(connector.i)
                  ELSE Cat(S(" with generator syntax "), S(connector.i.s)),
                  IF "j" \in DOMAIN connector
                  THEN CatAll(<<S(" to target group "), PluralOf(connector.j, "index"),
                                S(": "),
                                IF connector.j.t # "str"
                                THEN ConnectorIndices(connector.j)
                                ELSE Cat(S(" with generator syntax "), S(connector.j.s))>>)
                  ELSE S(" to all target group members")>>)
    ELSE IF "j" \in DOMAIN connector
    THEN Cat(S(". Connection for all members in source group"),
             IF connector.j.t # "str"
             THEN CatAll(<<S(" to target group "), PluralOf(connector.j, "index"), S(": "),
                           ConnectorIndices(connector.j)>>)
             ELSE Cat(S(" to target group with generator syntax "), S(connector.j.s)))
    ELSE IF "condition" \in DOMAIN connector
    THEN Cat(S(" with condition "), render(connector.condition, gm))
    ELSE Ok(<<>>)

expand_connector(connector, gm) ==
    Requires(connector, {"source", "target", "probability", "n_connections"},
        CatAll(<<S("Connection from "), S(connector.source),
                 S(" to "), S(connector.target),
                 ConnectorPattern(connector, gm),
                 IF NotOne(connector.probability)
                 THEN Cat(S(", with probability "),
                          render(Str(connector.probability), gm))
                 ELSE Ok(<<>>),
                 IF NotOne(connector.n_connections)
                 THEN Cat(S(", with number of connections "),
                          render(Str(connector.n_connections), gm))
                 ELSE Ok(<<>>),
                 IF "identifiers" \in DOMAIN connector
                 THEN Cat(S(". Constants associated: "),
                          expand_identifiers(connector.identifiers, gm))
                 ELSE Ok(<<>>),
                 S(endll)>>))

(***************************************************************************)
(* create_md_string                                                        *)
(***************************************************************************)
\* variant of OpeningString: the 's' of the verb chosen the other way round
OpeningString_swapped(net_dict) ==
    CatAll(<<header(S("Network details"), 1), S(endl),
             S("The Network consist"),
             S(IF Len(net_dict) > 1 THEN "s" ELSE ""),
             S(" of "), bold(S(ToString(Len(net_dict)))),
             S(" " \o Spaces(27) \o "simulation run"),
             Plural(PyList(net_dict)),
             S(endl), horizontal_rule, S(endl)>>)

\* lines 184-196 without the assignment to self.github_md: the header and the
\* sentence on the number of runs
OpeningString(net_dict) ==
    CatAll(<<header(S("Network details"), 1), S(endl),
             S("The Network consist"),
             S(IF Len(net_dict) > 1 THEN "" ELSE "s"),
             S(" of "), bold(S(ToString(Len(net_dict)))),
             S(" " \o Spaces(27) \o "simulation run"),
             Plural(PyList(net_dict)),
             S(endl), horizontal_rule, S(endl)>>)

\* variant of RunHeader: the number shown is run_indx
RunHeader_from_zero(net_dict, run_indx) ==
    IF Len(net_dict) > 1
    THEN Cat(header(CatAll(<<S("Run "), S(ToString(run_indx)), S(" details")>>), 3),
             S(endl))
    ELSE S(endl)

\* lines 202-207: run_indx counts from 0
RunHeader(net_dict, run_indx) ==
    IF Len(net_dict) > 1
    THEN Cat(header(CatAll(<<S("Run "), S(ToString(run_indx + 1)), S(" details")>>), 3),
             S(endl))
    ELSE S(endl)

\* lines 208-209
DurationSentence(run_dict) ==
    Requires(run_dict, {"duration"},
        CatAll(<<S("Duration of simulation is "), bold(S(run_dict.duration)), S(endll)>>))

func_map ==
    [neurongroup |-> [f |-> "expand_NeuronGroup", hb |-> "NeuronGroup",
                      h |-> "Neuron group"],
     poissongroup |-> [f |-> "expand_PoissonGroup", hb |-> "PoissonGroup",
                       h |-> "Poisson spike source"],
     spikegeneratorgroup |-> [f |-> "expand_SpikeGeneratorGroup",
                              hb |-> "SpikeGeneratorGroup",
                              h |-> "Spike generating source"],
     statemonitor |-> [f |-> "expand_StateMonitor", hb |-> "StateMonitor",
                       h |-> "Activity recorder"],
     spikemonitor |-> [f |-> "expand_SpikeMonitor", hb |-> "SpikeMonitor",
                       h |-> "Spiking activity recorder"],
     eventmonitor |-> [f |-> "expand_EventMonitor", hb |-> "EventMonitor",
                       h |-> "Event activity recorder"],
     populationratemonitor |-> [f |-> "expand_PopulationRateMonitor",
                                hb |-> "PopulationRateMonitor",
                                h |-> "Population rate recorder"],
     synapses |-> [f |-> "expand_Synapses", hb |-> "Synapse", h |-> "Synapse"],
     poissoninput |-> [f |-> "expand_PoissonInput", hb |-> "PoissonInput",
                       h |-> "Poisson input"]]

\* func_map[obj_key]['f'](obj_mem): the bound method named f applied
CallExpand(f, obj_mem, gm) ==
    CASE f = "expand_NeuronGroup" -> expand_NeuronGroup(obj_mem, gm)
      [] f = "expand_PoissonGroup" -> expand_PoissonGroup(obj_mem, gm)
      [] f = "expand_SpikeGeneratorGroup" -> expand_SpikeGeneratorGroup(obj_mem, gm)
      [] f = "expand_StateMonitor" -> expand_StateMonitor(obj_mem, gm)
      [] f = "expand_SpikeMonitor" -> expand_SpikeMonitor(obj_mem, gm)
      [] f = "expand_EventMonitor" -> expand_EventMonitor(obj_mem, gm)
      [] f = "expand_PopulationRateMonitor" -> expand_PopulationRateMonitor(obj_mem, gm)
      [] f = "expand_Synapses" -> expand_Synapses(obj_mem, gm)
      [] f = "expand_PoissonInput" -> expand_PoissonInput(obj_mem, gm)

\* variant of ComponentString: the members are expanded last to first
ComponentString_reversed(obj_key, obj_list, brian_verbose, gm) ==
    Cat(IF obj_key \in DOMAIN func_map
        THEN CatAll(<<bold(CatAll(<<S(IF brian_verbose THEN func_map[obj_key].hb
                                      ELSE func_map[obj_key].h),
                                    Plural(PyList(obj_list)), S(" defined:")>>)),
                      S(endl),
                      CatAll([i \in DOMAIN obj_list |->
                          Cat(S("- "), CallExpand(func_map[obj_key].f,
                                                  obj_list[Len(obj_list) + 1 - i], gm))])>>)
        ELSE Ok(<<>>),
        S(endl))

\* lines 244-257: one (obj_key, obj_list) of run_dict['components'].items()
ComponentString(obj_key, obj_list, brian_verbose, gm) ==
    Cat(IF obj_key \in DOMAIN func_map
        THEN CatAll(<<bold(CatAll(<<S(IF brian_verbose THEN func_map[obj_key].hb
                                      ELSE func_map[obj_key].h),
                                    Plural(PyList(obj_list)), S(" defined:")>>)),
                      S(endl),
                      CatAll([i \in DOMAIN obj_list |->
                          Cat(S("- "), CallExpand(func_map[obj_key].f, obj_list[i], gm))])>>)
        ELSE Ok(<<>>),
        S(endl))

\* lines 242-257
ComponentsString(run_dict, brian_verbose, gm) ==
    Requires(run_dict, {"components"},
        CatAll([i \in DOMAIN run_dict.components |->
            ComponentString(run_dict.components[i].k, run_dict.components[i].v,
                            brian_verbose, gm)]))

\* lines 260-269: the lists `initializer` and `connector`
RECURSIVE SplitInitializersConnectors(_)
SplitInitializersConnectors(entries) ==
    IF entries = <<>> THEN [initializer |-> <<>>, connector |-> <<>>]
    ELSE LET init_cont == entries[Len(entries)]
             before == SplitInitializersConnectors(SubSeq(entries, 1, Len(entries) - 1))
         IN  IF Is(init_cont.type, "initializer")
             THEN [before EXCEPT !.initializer = Append(@, init_cont)]
             ELSE [before EXCEPT !.connector = Append(@, init_cont)]

InitializersConnectors(run_dict) ==
    IF "initializers_connectors" \in DOMAIN run_dict
    THEN SplitInitializersConnectors(run_dict.initializers_connectors)
    ELSE [initializer |-> <<>>, connector |-> <<>>]

\* lines 270-280
InitializerSection(initializer, brian_verbose, gm) ==
    IF initializer # <<>>
    THEN CatAll(<<IF brian_verbose
                  THEN Cat(bold(CatAll(<<S("Initializer"), Plural(PyList(initializer)),
                                         S(" defined:")>>)), S(endl))
                  ELSE Cat(bold(S("Initializing values at " \o Spaces(40) \o "starting:")),
                           S(endl)),
                  CatAll([i \in DOMAIN initializer |->
                      Cat(S("- "), expand_initializer(initializer[i], gm))])>>)
    ELSE Ok(<<>>)

\* lines 281-288
ConnectorSection(connector, gm) ==
    IF connector # <<>>
    THEN CatAll(<<S(endl),
                  bold(CatAll(<<S("Synaptic Connection"), Plural(PyList(connector)),
                                S(" defined:")>>)), S(endl),
                  CatAll([i \in DOMAIN connector |->
                      Cat(S("- "), expand_connector(connector[i], gm))])>>)
    ELSE Ok(<<>>)

\* lines 289-295
InactiveSection(run_dict) ==
    IF "inactive" \in DOMAIN run_dict
    THEN CatAll(<<S(endl),
                  bold(CatAll(<<S("Inactive member"), Plural(PyList(run_dict.inactive)),
                                S(":")>>)), S(endl),
                  S(JoinStr(", ", run_dict.inactive))>>)
    ELSE Ok(<<>>)

\* lines 198-296: run_string of the run net_dict[run_indx]
RunString(net_dict, run_indx, brian_verbose, gm) ==
    LET run_dict == net_dict[run_indx + 1]
        lists == InitializersConnectors(run_dict)
    IN  CatAll(<<RunHeader(net_dict, run_indx),
                 DurationSentence(run_dict),
                 ComponentsString(run_dict, brian_verbose, gm),
                 InitializerSection(lists.initializer, brian_verbose, gm),
                 ConnectorSection(lists.connector, gm),
                 InactiveSection(run_dict)>>)

\* line 189: self.github_md = github_md
StoreGithubMd(github_md_arg) == [set |-> TRUE, val |-> github_md_arg]

\* variant of GithubMdRead: the argument is stored after the text is built
GithubMdRead_stale(before, stored) == before

\* self.github_md as render_expression reads it during the call: every expand
\* function runs after line 189, so it is the value just stored
GithubMdRead(before, stored) == stored

\* variant of AssignMdText: the new text is appended to the old
AssignMdText_appending(old, res) ==
    IF Raised(res) THEN old ELSE [set |-> TRUE, val |-> old.val \o res.txt]

\* lines 298-300: self.md_text = overall_string, reached only without exception
AssignMdText(old, res) ==
    IF Raised(res) THEN old ELSE [set |-> TRUE, val |-> res.txt]

\* the text create_md_string builds (overall_string), or the exception it
\* raises; gm is self.github_md as the expand functions read it
OverallString(net_dict, brian_verbose, gm) ==
    Cat(OpeningString(net_dict),
        CatAll([i \in DOMAIN net_dict |-> RunString(net_dict, i - 1, brian_verbose, gm)]))

(***************************************************************************)
(* Bounds and the standard dictionaries the calls are made with            *)
(***************************************************************************)
MaxLen == 3      \* elements of the iterable given to check_plural
MaxMembers == 2  \* members of one component list
MaxComps == 2    \* keys of run_dict['components']
MaxEntries == 2  \* entries of run_dict['initializers_connectors']
MaxRuns == 2     \* runs of net_dict
MaxSegments == 2 \* segments (between ';' or newlines) of a statements str

SeqsUpTo(elems, n) == UNION {[1..k -> elems] : k \in 0..n}

\* a key that may be absent: no key, or the key with one of vals
Opt(k, vals) == {<<>>} \cup {k :> v : v \in vals}

Equations1 ==
    <<[k |-> "v", v |-> [type |-> "differential equation", expr |-> "(v_th - v)/tau",
                         unit |-> "V"]]>>
Equations2 ==
    <<[k |-> "v", v |-> [type |-> "differential equation", expr |-> "(v_th - v)/tau",
                         unit |-> "V"]],
      [k |-> "v_th", v |-> [type |-> "subexpression", expr |-> "900*mV", unit |-> "V"]],
      [k |-> "tau", v |-> [type |-> "parameter", unit |-> "s", flags |-> <<"constant">>]]>>
Events1 ==
    <<[k |-> "spike", v |-> [threshold |-> [code |-> "v > v_th"],
                             reset |-> [code |-> <<"v ", "=", " v_rest">>],
                             refractory |-> "2*ms"]]>>
Identifiers1 ==
    <<[k |-> "tau", v |-> PyQuantity("10. ms")],
      [k |-> "ta", v |-> PyRecord([type |-> PyLit("timedarray"), ndim |-> "1",
                                   dt |-> "1*ms"])]>>
RunReg1 == [dt |-> "1*ms", code |-> <<"v ", "+", "=", " 1">>]
RunReg2 == [dt |-> "2*ms", code |-> <<"v ", "=", " 0", ";", "w ", "-", "=", " 1">>]
Pathway1 == [prepost |-> "pre", event |-> "spike", code |-> <<"v ", "+", "=", " w">>,
             delay |-> "1*ms"]
Summed1 == [target |-> "neurongroup", code |-> "g_post"]

NeuronGroupDicts ==
    {[name |-> "neurongroup", N |-> 10, equations |-> eqs, user_method |-> m]
        @@ ev @@ id @@ rr :
        eqs \in {Equations1, Equations2},
        m \in {PyNone, PyStr("euler")},
        ev \in Opt("events", {Events1}),
        id \in Opt("identifiers", {Identifiers1}),
        rr \in Opt("run_regularly", {<<RunReg1>>, <<RunReg1, RunReg2>>})}

SynapsesDicts ==
    {[source |-> "neurongroup", target |-> "neurongroup_1"]
        @@ eqs @@ m @@ pw @@ sv @@ id :
        eqs \in Opt("equations", {Equations1}),
        m \in Opt("user_method", {PyNone, PyStr("euler")}),
        pw \in Opt("pathways", {<<Pathway1>>}),
        sv \in Opt("summed_variables", {<<Summed1>>}),
        id \in Opt("identifiers", {Identifiers1})}

SpikeGeneratorDicts ==
    {[name |-> "spikegeneratorgroup", N |-> 2, indices |-> ind,
      times |-> [i \in DOMAIN ind |-> "10. ms"]] @@ per @@ rr :
        ind \in {<<0>>, <<0, 1>>},
        per \in Opt("period", {"20. ms"}),
        rr \in Opt("run_regularly", {<<RunReg1>>})}

NeuronGroup1 ==
    [name |-> "neurongroup", N |-> 10, equations |-> Equations1,
     user_method |-> PyStr("euler")]
NeuronGroup2 ==
    [name |-> "neurongroup_1", N |-> 1, equations |-> Equations2,
     user_method |-> PyNone, events |-> Events1, identifiers |-> Identifiers1,
     run_regularly |-> <<RunReg1>>]
SpikeGenerator1 ==
    [name |-> "spikegeneratorgroup", N |-> 2, indices |-> <<0, 1>>,
     times |-> <<"10. ms", "20. ms">>, period |-> "20. ms"]
SpikeGeneratorNoPeriod ==
    [name |-> "spikegeneratorgroup", N |-> 1, indices |-> <<0>>, times |-> <<"10. ms">>]
Synapses1 ==
    [source |-> "neurongroup", target |-> "neurongroup_1", equations |-> Equations1,
     user_method |-> PyStr("euler"), pathways |-> <<Pathway1>>]
SynapsesNoMethod ==
    [source |-> "neurongroup", target |-> "neurongroup_1", equations |-> Equations1,
     user_method |-> PyNone]
Monitor1 ==
    [variables |-> <<"v">>, source |-> "neurongroup", record |-> PyArr(<<0, 1>>),
     event |-> "spike"]

PoissonInput1 == [N |-> 3, target_var |-> "v", rate |-> "5*Hz", weight |-> "2"]

\* the members a component list is drawn from, by key; 'networkoperation' is a
\* key of the standard dictionary that func_map does not have
ComponentSamples ==
    [neurongroup |-> {NeuronGroup1, NeuronGroup2},
     poissongroup |-> {[name |-> "poissongroup", N |-> 5, rates |-> "10*Hz"]},
     spikegeneratorgroup |-> {SpikeGenerator1},
     statemonitor |-> {[variables |-> <<"v", "w">>, source |-> "neurongroup",
                        record |-> PyBool(TRUE)]},
     spikemonitor |-> {Monitor1},
     eventmonitor |-> {Monitor1},
     populationratemonitor |-> {[source |-> "neurongroup"]},
     synapses |-> {Synapses1},
     poissoninput |-> {PoissonInput1},
     networkoperation |-> {[name |-> "networkoperation"]}]

ComponentKeys == DOMAIN ComponentSamples

\* keys of the runs that hold several components
OrderKeys == {"neurongroup", "spikemonitor", "networkoperation"}

Initializer1 ==
    [type |-> PyLit("initializer"), variable |-> "v", source |-> "neurongroup",
     value |-> "v_rest", index |-> PyBool(TRUE)]
Initializer2 ==
    [type |-> PyLit("initializer"), variable |-> "w", source |-> "neurongroup",
     value |-> "1", index |-> PyStr("i > 2"), identifiers |-> Identifiers1]
Connector1 ==
    [type |-> PyLit("connect"), source |-> "neurongroup", target |-> "neurongroup_1",
     i |-> PyList(<<0, 1>>), j |-> PyInt(2), probability |-> PyInt(1),
     n_connections |-> PyInt(2)]
\* an initializer whose 'type' is a str equal to 'initializer' that was built at
\* run time (read from a file, joined, unpickled): not the interned literal
InitializerBuilt ==
    [type |-> PyBuilt("initializer"), variable |-> "v", source |-> "neurongroup",
     value |-> "v_rest", index |-> PyBool(TRUE)]

EntrySamples == {Initializer1, Initializer2, Connector1}

Run(duration, components) == [duration |-> duration, components |-> components]

\* one run with one component key
SingleComponentNets ==
    UNION {{<<Run("10. ms", <<[k |-> key, v |-> list]>>)>> :
                list \in SeqsUpTo(ComponentSamples[key], MaxMembers)} :
           key \in ComponentKeys}

\* one run with up to MaxComps keys, no key twice, in every order
OrderedComponentNets ==
    {<<Run("10. ms", [i \in DOMAIN keys |->
            [k |-> keys[i], v |-> <<CHOOSE m \in ComponentSamples[keys[i]] : TRUE>>]])>> :
        keys \in {ks \in SeqsUpTo(OrderKeys, MaxComps) :
                    \A i, j \in DOMAIN ks : i # j => ks[i] # ks[j]}}

\* one run with initializers and connectors
InitializerConnectorNets ==
    {<<Run("10. ms", <<>>) @@ ("initializers_connectors" :> entries)>> :
        entries \in SeqsUpTo(EntrySamples, MaxEntries)}

\* one run with inactive objects
InactiveNets ==
    {<<Run("10. ms", <<>>) @@ ("inactive" :> names)>> :
        names \in {<<"neurongroup">>, <<"neurongroup", "synapses">>}}

\* up to MaxRuns runs
SimpleRuns ==
    {Run("10. ms", <<>>),
     Run("20. ms", <<[k |-> "neurongroup", v |-> <<NeuronGroup1>>]>>)}

MultiRunNets == SeqsUpTo(SimpleRuns, MaxRuns) \ {<<>>}

\* dictionaries on which an expand function raises
RaisingNets ==
    {<<Run("10. ms", <<[k |-> "spikegeneratorgroup", v |-> <<SpikeGeneratorNoPeriod>>]>>)>>,
     <<Run("10. ms", <<[k |-> "synapses", v |-> <<SynapsesNoMethod>>]>>)>>,
     <<Run("10. ms", <<>>) @@ ("initializers_connectors" :> <<Initializer1, InitializerBuilt>>)>>}

NetDicts ==
    SingleComponentNets \cup OrderedComponentNets \cup InitializerConnectorNets
        \cup InactiveNets \cup MultiRunNets \cup RaisingNets

\* the networks of the specification that follows the rendering mode
ModeNets ==
    {<<Run("10. ms", <<>>)>>,
     <<Run("10. ms", <<[k |-> "neurongroup", v |-> <<NeuronGroup2>>]>>)
         @@ ("initializers_connectors" :> <<Initializer2, Connector1>>)>>,
     <<Run("10. ms", <<[k |-> "synapses", v |-> <<Synapses1>>]>>),
       Run("20. ms", <<[k |-> "poissoninput", v |-> <<PoissonInput1>>]>>)>>}

\* the monitor dictionaries expand_SpikeMonitor and expand_EventMonitor are
\* called with: record is a bool, an array, or a list (which has no .size)
MonitorDicts ==
    {[variables |-> variables, source |-> "neurongroup", record |-> record] @@ ev :
        variables \in {<<"v">>, <<"v", "w">>},
        record \in {PyBool(TRUE), PyBool(FALSE), PyArr(<<>>), PyArr(<<0, 1>>),
                    PyList(<<0>>)},
        ev \in Opt("event", {"spike"})}

\* one run with one monitor, under the key of a spike or of an event monitor
MonitorNets ==
    {<<Run("10. ms", <<[k |-> key, v |-> <<mon>>]>>)>> :
        key \in {"spikemonitor", "eventmonitor"},
        mon \in {m \in MonitorDicts : m.variables = <<"v">>}}

\* the networks that set the rendering mode before an expand function is called
\* on its own
SetupNets == {<<Run("10. ms", <<>>)>>}

\* the networks in a fixed order: a call names its network by position
RECURSIVE SetToSeq(_)
SetToSeq(set) ==
    IF set = {} THEN <<>>
    ELSE LET x == CHOOSE y \in set : TRUE IN <<x>> \o SetToSeq(set \ {x})

NetList ==
    SetToSeq(SingleComponentNets)
        \o SetToSeq(InitializerConnectorNets \ SingleComponentNets)
        \o SetToSeq(NetDicts \ (SingleComponentNets \cup InitializerConnectorNets))
        \o SetToSeq((ModeNets \cup SetupNets \cup MonitorNets) \ NetDicts)

NetIds == {i \in DOMAIN NetList : NetList[i] \in NetDicts}
ModeNetIds == {i \in DOMAIN NetList : NetList[i] \in ModeNets}
SetupNetIds == {i \in DOMAIN NetList : NetList[i] \in SetupNets}
MonitorNetIds == {i \in DOMAIN NetList : NetList[i] \in MonitorNets}

\* what create_md_string builds for each network, worked out once: OverallString
\* is a function of its arguments
GithubMdValues ==
    {[set |-> FALSE, val |-> FALSE], [set |-> TRUE, val |-> FALSE],
     [set |-> TRUE, val |-> TRUE]}

OverallStringOf ==
    [i \in DOMAIN NetList |-> [brian_verbose \in BOOLEAN |-> [gm \in GithubMdValues |->
        OverallString(NetList[i], brian_verbose, gm)]]]

PluralIterables ==
    {PyInt(5), PyStr("ab")} \cup {PyList(l) : l \in SeqsUpTo({"a", "b"}, MaxLen)}

SingularWords == {PyNone, PyStr(""), PyStr("index"), PyStr("property"), PyStr("member")}

\* the connector dictionaries expand_connector is called with
ConnectorDicts ==
    {[type |-> PyLit("connect"), source |-> "neurongroup", target |-> "neurongroup_1",
      probability |-> p, n_connections |-> n] @@ i @@ j @@ cond :
        p \in {PyInt(1), PyStr("0.5")},
        n \in {PyInt(1), PyInt(2)},
        i \in Opt("i", {PyList(<<0, 1>>), PyInt(3), PyStr("k for k in range(2)")}),
        j \in Opt("j", {PyList(<<1, 2>>), PyInt(2), PyStr("i")}),
        cond \in Opt("condition", {"i != j"})}

\* the initializer dictionaries expand_initializer is called with
InitializerDicts ==
    {[type |-> PyLit("initializer"), variable |-> "v", source |-> "neurongroup",
      value |-> "v_rest", index |-> index] @@ id :
        index \in {PyBool(TRUE), PyBool(FALSE), PyStr("True"), PyStr("False"),
                   PyStr("i > 2"), PyInt(3), PyList(<<0, 1>>), PyList(<<4>>),
                   PyArr(<<0, 1>>)},
        id \in Opt("identifiers", {Identifiers1})}

\* the segments a statements str is made of: empty, an expression, the three
\* kinds of assignment, and assignments with a comparison on the right
SegmentSamples ==
    {<<>>, <<"w">>, <<"v ", "=", " 0">>, <<"w ", "+", "=", " 1">>,
     <<"u ", "-", "=", " a ", "-", " 1">>,
     <<"v ", "=", " w ", "=", "=", " 1">>, <<"v ", "=", " w >", "=", " 1">>}

\* sep.join(segments) as pieces
RECURSIVE JoinPieces(_, _)
JoinPieces(segments, sep) ==
    IF Len(segments) = 1 THEN Head(segments)
    ELSE Head(segments) \o <<sep>> \o JoinPieces(Tail(segments), sep)

\* the statements strs prepare_math_statements is called with
StatementSamples ==
    UNION {{JoinPieces(segments, sep) : sep \in {";", "\n"}} :
              segments \in SeqsUpTo(SegmentSamples, MaxSegments) \ {<<>>}}

(***************************************************************************)
(* The expander object: its state and the calls made on it                 *)
(***************************************************************************)
NoCall == [op |-> "", arg |-> <<>>, res |-> Ok(<<>>)]
NoProbe == [set |-> FALSE, old |-> FALSE, arg |-> <<>>, res |-> Ok(<<>>)]

\* Std_mdexpander(): the class defines no __init__, the attributes are unset
Init ==
    /\ github_md = [set |-> FALSE, val |-> FALSE]
    /\ md_text = [set |-> FALSE, val |-> <<>>]
    /\ call = NoCall
    /\ last_ok = [set |-> FALSE, val |-> <<>>]
    /\ probe = NoProbe
    /\ std_dict = <<>>

\* variant of ArgumentAfter: expand_NeuronGroup takes the run_regularly entries
\* off the list as it expands them
ArgumentAfter_consumed(op, arg) ==
    IF op = "expand_NeuronGroup" /\ "run_regularly" \in DOMAIN arg
    THEN [arg EXCEPT !.run_regularly = <<>>]
    ELSE arg

\* the argument of a call after the call: no statement of the class assigns to
\* a key, deletes a key or calls a mutating method of what it was passed; the
\* appends of lines 267 and 269 are to the local lists initializer and connector
ArgumentAfter(op, arg) == arg

\* self.create_md_string(net_dict, brian_verbose, github_md) for the network
\* NetList[i], i in ids; keep says which calls the history variable probe may keep
create_md_string(ids, keep) ==
    \E i \in ids, brian_verbose \in BOOLEAN, github_md_arg \in BOOLEAN, kept \in keep :
        /\ github_md' = StoreGithubMd(github_md_arg)
        /\ call' = [op |-> "create_md_string",
                    arg |-> [net_dict |-> NetList[i], brian_verbose |-> brian_verbose,
                             github_md |-> github_md_arg],
                    res |-> OverallStringOf[i][brian_verbose][
                                GithubMdRead(github_md, github_md')]]
        /\ md_text' = AssignMdText(md_text, call'.res)
        /\ last_ok' = IF Raised(call'.res) THEN last_ok
                      ELSE [set |-> TRUE, val |-> call'.res.txt]
        /\ probe' = IF kept
                    THEN [set |-> TRUE, old |-> FALSE, arg |-> call'.arg, res |-> call'.res]
                    ELSE [probe EXCEPT !.old = probe.set]
        /\ std_dict' = ArgumentAfter("create_md_string", NetList[i])

\* a call of a method that writes no attribute
Returns(op, arg, res) ==
    /\ call' = [op |-> op, arg |-> arg, res |-> res]
    /\ std_dict' = ArgumentAfter(op, arg)
    /\ UNCHANGED <<github_md, md_text, last_ok, probe>>

call_check_plural ==
    \E iterable \in PluralIterables, singular_word \in SingularWords,
       allow_constants \in BOOLEAN :
        LET r == check_plural(iterable, singular_word, allow_constants)
        IN  Returns("check_plural",
                    [iterable |-> iterable, singular_word |-> singular_word,
                     allow_constants |-> allow_constants],
                    r)

call_expand_NeuronGroup ==
    \E neurongrp \in NeuronGroupDicts :
        Returns("expand_NeuronGroup", neurongrp, expand_NeuronGroup(neurongrp, github_md))

call_expand_Synapses ==
    \E synapse \in SynapsesDicts :
        Returns("expand_Synapses", synapse, expand_Synapses(synapse, github_md))

call_expand_SpikeGeneratorGroup ==
    \E spkgen \in SpikeGeneratorDicts :
        Returns("expand_SpikeGeneratorGroup", spkgen,
                expand_SpikeGeneratorGroup(spkgen, github_md))

call_expand_connector ==
    \E connector \in ConnectorDicts :
        Returns("expand_connector", connector, expand_connector(connector, github_md))

call_expand_initializer ==
    \E initializer \in InitializerDicts :
        Returns("expand_initializer", initializer,
                expand_initializer(initializer, github_md))

\* separate=False hands every segment to str_to_sympy as it is, so it is called
\* on expressions only
call_prepare_math_statements ==
    \E statements \in StatementSamples, separate \in BOOLEAN :
        /\ separate \/ \A k \in DOMAIN SplitLines(statements, <<>>) :
                           /\ SplitLines(statements, <<>>)[k] # <<>>
                           /\ ~HasEq(SplitLines(statements, <<>>)[k])
        /\ Returns("prepare_math_statements",
                   [statements |-> statements, separate |-> separate],
                   prepare_math_statements(statements, FALSE, separate, "&#8592;",
                                           github_md))

call_expand_SpikeMonitor ==
    \E spikemon \in MonitorDicts :
        Returns("expand_SpikeMonitor", spikemon, expand_SpikeMonitor(spikemon, github_md))

call_expand_EventMonitor ==
    \E eventmon \in MonitorDicts :
        Returns("expand_EventMonitor", eventmon, expand_EventMonitor(eventmon, github_md))

\* the calls of create_md_string on one expander
Next == create_md_string(NetIds, {FALSE})

Spec == Init /\ [][Next]_vars

\* create_md_string with the calls that went before it kept for comparison
NextMode == create_md_string(ModeNetIds, BOOLEAN)

SpecMode == Init /\ [][NextMode]_vars

\* the methods called one by one on an expander
NextCalls ==
    \/ create_md_string(SetupNetIds, {FALSE})
    \/ call_check_plural
    \/ call_expand_NeuronGroup
    \/ call_expand_Synapses
    \/ call_expand_SpikeGeneratorGroup
    \/ call_expand_connector
    \/ call_expand_initializer

SpecCalls == Init /\ [][NextCalls]_vars

\* prepare_math_statements called on its own
NextStatements ==
    \/ create_md_string(SetupNetIds, {FALSE})
    \/ call_prepare_math_statements

SpecStatements == Init /\ [][NextStatements]_vars

\* the two monitor handlers called on their own and through create_md_string
NextMonitors ==
    \/ create_md_string(MonitorNetIds, {FALSE})
    \/ call_expand_SpikeMonitor
    \/ call_expand_EventMonitor

SpecMonitors == Init /\ [][NextMonitors]_vars

(***************************************************************************)
(* Properties                                                              *)
(***************************************************************************)
\* the last call was create_md_string and it returned
Created == call.op = "create_md_string" /\ ~Raised(call.res)

\* how often a chunk occurs in a text
Count(txt, chunk) == Cardinality({p \in DOMAIN txt : txt[p] = chunk})

\* the texts of a sequence, one after the other
RECURSIVE Flatten(_)
Flatten(txts) == IF txts = <<>> THEN <<>> ELSE Head(txts) \o Flatten(Tail(txts))

\* part occurs in txt, as one piece
IsInfix(part, txt) ==
    \E p \in 0..(Len(txt) - Len(part)) : SubSeq(txt, p + 1, p + Len(part)) = part

\* the nine keys of the handler table
TableKeys ==
    {"neurongroup", "poissongroup", "spikegeneratorgroup", "statemonitor",
     "spikemonitor", "eventmonitor", "populationratemonitor", "synapses",
     "poissoninput"}

\* the handler that belongs to a key of the table
OwnHandler(key, member, gm) ==
    CASE key = "neurongroup" -> expand_NeuronGroup(member, gm)
      [] key = "poissongroup" -> expand_PoissonGroup(member, gm)
      [] key = "spikegeneratorgroup" -> expand_SpikeGeneratorGroup(member, gm)
      [] key = "statemonitor" -> expand_StateMonitor(member, gm)
      [] key = "spikemonitor" -> expand_SpikeMonitor(member, gm)
      [] key = "eventmonitor" -> expand_EventMonitor(member, gm)
      [] key = "populationratemonitor" -> expand_PopulationRateMonitor(member, gm)
      [] key = "synapses" -> expand_Synapses(member, gm)
      [] key = "poissoninput" -> expand_PoissonInput(member, gm)

\* the heading of a key: its words, 's' for several members, ' defined:'
HeadingOf(key, list, brian_verbose) ==
    <<"**", IF brian_verbose THEN func_map[key].hb ELSE func_map[key].h>>
        \o (IF Len(list) > 1 THEN <<"s">> ELSE <<>>) \o <<" defined:", "**", "\n">>

\* what the claim says one key of the components contributes, before the line
\* break that closes every key
ExpectedComponent(key, list, brian_verbose, gm) ==
    IF key \in TableKeys
    THEN HeadingOf(key, list, brian_verbose)
            \o Flatten([i \in DOMAIN list |-> <<"- ">> \o OwnHandler(key, list[i], gm).txt])
    ELSE <<>>

ExpectedComponents(run_dict, brian_verbose, gm) ==
    Flatten([i \in DOMAIN run_dict.components |->
        ExpectedComponent(run_dict.components[i].k, run_dict.components[i].v,
                          brian_verbose, gm) \o <<"\n">>])

\* the rest of a run's text, around its components
BeforeComponents(net_dict, k) ==
    RunHeader(net_dict, k - 1).txt \o DurationSentence(net_dict[k]).txt

AfterComponents(run_dict, brian_verbose, gm) ==
    LET lists == InitializersConnectors(run_dict)
    IN  CatAll(<<InitializerSection(lists.initializer, brian_verbose, gm),
                 ConnectorSection(lists.connector, gm),
                 InactiveSection(run_dict)>>)

\* a member of a component list of the table whose own handler raises
SomeHandlerRaises(net_dict, gm) ==
    \E k \in DOMAIN net_dict : \E i \in DOMAIN net_dict[k].components :
        LET c == net_dict[k].components[i]
        IN  c.k \in TableKeys /\ \E m \in DOMAIN c.v : Raised(OwnHandler(c.k, c.v[m], gm))

\* C1: in the text create_md_string returns, every key of run_dict['components'],
\* in the mapping's order, contributes one heading and one '- ' bullet per member
\* of its list, in list order, each bullet the output of the key's own handler,
\* if the key is one of the nine keys of the table, and nothing if it is not;
\* a call raises only if a handler or a later section raises, never for a key
\* that is not in the table.
C1_Dispatch ==
    call.op = "create_md_string" =>
        LET net_dict == call.arg.net_dict
            bv == call.arg.brian_verbose
            gm == StoreGithubMd(call.arg.github_md)
        IN  /\ ~Raised(call.res) =>
                call.res.txt = OpeningString(net_dict).txt \o
                    Flatten([k \in DOMAIN net_dict |->
                        BeforeComponents(net_dict, k)
                            \o ExpectedComponents(net_dict[k], bv, gm)
                            \o AfterComponents(net_dict[k], bv, gm).txt])
            /\ Raised(call.res) =>
                \/ SomeHandlerRaises(net_dict, gm)
                \/ \E k \in DOMAIN net_dict : Raised(AfterComponents(net_dict[k], bv, gm))

\* a returned call with a key of the table that has two different members, and a
\* key that is not in the table
C1_Witness ==
    /\ Created
    /\ \E k \in DOMAIN call.arg.net_dict : \E i \in DOMAIN call.arg.net_dict[k].components :
          LET c == call.arg.net_dict[k].components[i]
          IN  c.k \in TableKeys /\ Len(c.v) = 2 /\ c.v[1] # c.v[2]
    /\ Count(call.res.txt, "- ") = 2

\* a returned call on a run whose only key is not in the table
C1_WitnessUnknownKey ==
    /\ Created
    /\ \E k \in DOMAIN call.arg.net_dict : \E i \in DOMAIN call.arg.net_dict[k].components :
          call.arg.net_dict[k].components[i].k \notin TableKeys
             /\ call.arg.net_dict[k].components[i].v # <<>>

\* the opening sentence as the claim words it, for n runs
ExpectedOpeningSentence(n) ==
    IF n = 1
    THEN <<"The Network consist", "s", " of ", "**", "1", "**",
           " " \o Spaces(27) \o "simulation run", "\n">>
    ELSE <<"The Network consist", " of ", "**", ToString(n), "**",
           " " \o Spaces(27) \o "simulation run", "s", "\n">>

\* C2: the sentence that follows the 'Network details' header reads 'consists
\* of 1 simulation run' for one run and 'consist of n simulation runs' for n >= 2
\* runs, n the number of runs of net_dict.
C2_OpeningSentence ==
    Created /\ Len(call.arg.net_dict) >= 1 =>
        LET n == Len(call.arg.net_dict)
            expected == ExpectedOpeningSentence(n)
        IN  SubSeq(call.res.txt, 4, 3 + Len(expected)) = expected

C2_Witness == Created /\ Len(call.arg.net_dict) >= 2

\* the run headers and duration sentences of a text, in the order they occur:
\* <<"Run", k>> for a header '### Run k details', <<"Duration", d>> for a
\* sentence 'Duration of simulation is **d**'
IsRunHeaderAt(txt, p) ==
    /\ txt[p] = "Run " /\ p > 1 /\ txt[p - 1] = "### "
    /\ p + 2 <= Len(txt) /\ txt[p + 2] = " details"

IsDurationAt(txt, p) == txt[p] = "Duration of simulation is " /\ p + 3 <= Len(txt)

RunMarkers(txt) ==
    LET at == {p \in DOMAIN txt : IsRunHeaderAt(txt, p) \/ IsDurationAt(txt, p)}
        nth(i) == CHOOSE p \in at : Cardinality({q \in at : q <= p}) = i
    IN  [i \in 1..Cardinality(at) |->
            IF IsRunHeaderAt(txt, nth(i)) THEN <<"Run", txt[nth(i) + 1]>>
            ELSE <<"Duration", txt[nth(i) + 2]>>]

\* C3: the returned text holds, for the runs in index order, one 'Duration of
\* simulation is' sentence each with the run's own duration, preceded by a
\* 'Run k details' header exactly when there are several runs, k = 1, 2, ...
C3_RunOrder ==
    Created =>
        LET net_dict == call.arg.net_dict
            n == Len(net_dict)
        IN  RunMarkers(call.res.txt) =
                Flatten([k \in 1..n |->
                    (IF n > 1 THEN <<<<"Run", ToString(k)>>>> ELSE <<>>)
                        \o <<<<"Duration", net_dict[k].duration>>>>])

\* a returned call with two runs of different durations
C3_Witness ==
    /\ Created
    /\ Len(call.arg.net_dict) = 2
    /\ call.arg.net_dict[1].duration # call.arg.net_dict[2].duration

\* the number of elements of an iterable
ElementCount(iterable) ==
    IF iterable.t = "str" THEN Len(iterable.s) ELSE Len(iterable.l)

\* C4: for an iterable, check_plural returns '' when it has zero or one element,
\* 's' when it has two or more and no singular_word is given, and the irregular
\* plural ('indices', 'properties') when it has two or more and singular_word is
\* in the table; only the number of elements matters.
C4_CheckPlural ==
    call.op = "check_plural" /\ HasIter(call.arg.iterable) =>
        LET n == ElementCount(call.arg.iterable)
            word == call.arg.singular_word
        IN  /\ n <= 1 => call.res = [err |-> "", val |-> ""]
            /\ n >= 2 /\ word = PyNone => call.res = [err |-> "", val |-> "s"]
            /\ n >= 2 /\ word = PyStr("index") => call.res = [err |-> "", val |-> "indices"]
            /\ n >= 2 /\ word = PyStr("property") =>
                   call.res = [err |-> "", val |-> "properties"]

\* check_plural on a list of two or more elements with a word of the table
C4_Witness ==
    /\ call.op = "check_plural"
    /\ call.arg.iterable.t = "list" /\ ElementCount(call.arg.iterable) >= 2
    /\ call.arg.singular_word = PyStr("index")
    /\ call.res.val = "indices"

\* a singular_word that is given (not None, not '') and is not in the table
UnknownWord(word) ==
    word.t = "str" /\ word.s # "" /\ word.s \notin {"index", "property"}

\* C5 as stated: a non-iterable is singular with allow_constants and raises
\* IndexError without; a singular_word missing from the table raises whenever it
\* is passed, whatever the number of elements.
C5_AlwaysValidated ==
    call.op = "check_plural" =>
        /\ ~HasIter(call.arg.iterable) /\ call.arg.allow_constants =>
               call.res = [err |-> "", val |-> ""]
        /\ ~HasIter(call.arg.iterable) /\ ~call.arg.allow_constants =>
               call.res.err = "IndexError"
        /\ HasIter(call.arg.iterable) /\ UnknownWord(call.arg.singular_word) =>
               call.res.err = "Exception"

\* C5: a non-iterable is singular with allow_constants and raises IndexError
\* without; a singular_word missing from the table raises Exception exactly when
\* the iterable has two or more elements, and with zero or one element '' is
\* returned without the word being looked up.
C5_Validation ==
    call.op = "check_plural" =>
        /\ ~HasIter(call.arg.iterable) /\ call.arg.allow_constants =>
               call.res = [err |-> "", val |-> ""]
        /\ ~HasIter(call.arg.iterable) /\ ~call.arg.allow_constants =>
               call.res.err = "IndexError"
        /\ HasIter(call.arg.iterable) /\ UnknownWord(call.arg.singular_word) =>
               IF ElementCount(call.arg.iterable) >= 2
               THEN call.res.err = "Exception"
               ELSE call.res = [err |-> "", val |-> ""]

\* a word that is not in the table, passed with a single element: '' is returned
C5_Witness ==
    /\ call.op = "check_plural"
    /\ HasIter(call.arg.iterable) /\ ElementCount(call.arg.iterable) = 1
    /\ UnknownWord(call.arg.singular_word)
    /\ call.res = [err |-> "", val |-> ""]

\* C6: md_text is the text of the last create_md_string call that returned (unset
\* before the first): a call that raises leaves it as it was, and the text of
\* earlier calls is not kept in it, it holds the 'Network details' header once.
C6_MdTextIsLastReturned ==
    /\ md_text = last_ok
    /\ md_text.set => Count(md_text.val, "Network details") = 1
    /\ Created => md_text = [set |-> TRUE, val |-> call.res.txt]

\* a call that raised, on an expander that holds the text of an earlier call
C6_Witness ==
    /\ call.op = "create_md_string" /\ Raised(call.res)
    /\ md_text.set /\ md_text.val # <<>>

\* the entries whose 'type' equals 'initializer', and the others, in input order
EntriesOfType(run_dict, isInitializer) ==
    IF "initializers_connectors" \in DOMAIN run_dict
    THEN SelectSeq(run_dict.initializers_connectors,
                   LAMBDA e : (e.type.s = "initializer") = isInitializer)
    ELSE <<>>

\* C7 as stated: every entry of initializers_connectors is in the initializer
\* list if its 'type' equals 'initializer' and in the connector list otherwise,
\* in input order; in the returned text the initializer section is there iff
\* the initializer list is not empty and the 'Synaptic Connection' section iff
\* the connector list is not empty, with one bullet per entry.
C7_SplitByType ==
    call.op = "create_md_string" =>
        \A k \in DOMAIN call.arg.net_dict :
            LET run_dict == call.arg.net_dict[k]
                lists == InitializersConnectors(run_dict)
            IN  /\ lists.initializer = EntriesOfType(run_dict, TRUE)
                /\ lists.connector = EntriesOfType(run_dict, FALSE)
                /\ Created /\ Len(call.arg.net_dict) = 1 /\ run_dict.components = <<>> =>
                    /\ Count(call.res.txt, "Synaptic Connection") =
                           (IF EntriesOfType(run_dict, FALSE) # <<>> THEN 1 ELSE 0)
                    /\ Count(call.res.txt, "- ") =
                           Len(EntriesOfType(run_dict, TRUE))
                               + Len(EntriesOfType(run_dict, FALSE))

\* C8 as stated: expand_SpikeGeneratorGroup returns a description for a
\* dictionary without 'period'.
C8_NoPeriodReturns ==
    call.op = "expand_SpikeGeneratorGroup" /\ github_md.set
            /\ "period" \notin DOMAIN call.arg =>
        ~Raised(call.res)

\* the sentence on the integration method, as it follows the equations
MethodSentence(method) == <<"\t", method, " method is used for integration", "\n\n">>

\* C9 as stated: with 'user_method' None, expand_NeuronGroup and expand_Synapses
\* (with 'equations') return a text without the 'method is used for integration'
\* sentence; with a method name they return a text that has the sentence once,
\* directly after the equations.
C9_MethodSentence ==
    /\ call.op \in {"expand_NeuronGroup", "expand_Synapses"}
    /\ github_md.set
    /\ {"equations", "user_method"} \subseteq DOMAIN call.arg
    =>  /\ ~Raised(call.res)
        /\ IF call.arg.user_method = PyNone
           THEN Count(call.res.txt, " method is used for integration") = 0
           ELSE /\ Count(call.res.txt, " method is used for integration") = 1
                /\ IsInfix(expand_equations(call.arg.equations, github_md).txt
                               \o MethodSentence(call.arg.user_method.s),
                           call.res.txt)

\* the chunks that open an expression rendered as an image link, as inline math
ImageOpen == "<img src=\"https://render.githubusercontent.com/render/math?math="
MathOpen == "$"

\* C10: the text create_md_string returns is a function of the arguments of the
\* call: a call with the arguments of an earlier call returns what that call
\* returned, whatever was called in between, and every expression of the text is
\* rendered in the mode of the call's github_md (image link or inline math).
C10_TextDependsOnArguments ==
    call.op = "create_md_string" =>
        /\ probe.set /\ probe.arg = call.arg => probe.res = call.res
        /\ ~Raised(call.res) =>
               IF call.arg.github_md
               THEN Count(call.res.txt, MathOpen) = 0
               ELSE Count(call.res.txt, ImageOpen) = 0
        /\ ~Raised(call.res) =>
               call.res = OverallString(call.arg.net_dict, call.arg.brian_verbose,
                                        StoreGithubMd(call.arg.github_md))

\* a call that returned a text with expressions rendered as image links, made
\* with the arguments of an earlier call whose result was kept
C10_Witness ==
    /\ Created
    /\ probe.set /\ probe.old /\ probe.arg = call.arg
    /\ Count(call.res.txt, ImageOpen) > 0

\* the position of the k-th occurrence of a chunk in a text, 0 if there is none
NthPos(txt, chunk, k) ==
    LET at == {p \in DOMAIN txt :
                  txt[p] = chunk /\ Cardinality({q \in 1..p : txt[q] = chunk}) = k}
    IN  IF at = {} THEN 0 ELSE CHOOSE p \in at : TRUE

\* the chunks that mark the parts of expand_NeuronGroup, in the order of the code
NeuronGroupMarks ==
    <<"Name ", "Dynamics:", " method is used for integration", "Events:", "Constants:",
      "Run regularly">>

\* the part with mark m is to be there for this dictionary
NeuronGroupHasPart(neurongrp, m) ==
    CASE m = " method is used for integration" -> Truthy(neurongrp.user_method)
      [] m = "Events:" -> "events" \in DOMAIN neurongrp
      [] m = "Constants:" -> "identifiers" \in DOMAIN neurongrp
      [] m = "Run regularly" -> "run_regularly" \in DOMAIN neurongrp
      [] OTHER -> TRUE

\* C11: expand_NeuronGroup returns the name/size line, 'Dynamics:', the
\* equations, the method sentence, 'Events:', 'Constants:' and 'Run regularly'
\* in this order; 'Events:', 'Constants:' and 'Run regularly' are there exactly
\* when the key events, identifiers, run_regularly is in the dictionary, and the
\* 'Run regularly' part has one sentence per entry, in list order.
C11_NeuronGroupOrder ==
    call.op = "expand_NeuronGroup" /\ github_md.set =>
        LET txt == call.res.txt
            d == call.arg
            runs == IF "run_regularly" \in DOMAIN d THEN d.run_regularly ELSE <<>>
        IN  /\ ~Raised(call.res)
            /\ \A i \in DOMAIN NeuronGroupMarks :
                   Count(txt, NeuronGroupMarks[i]) =
                       (IF NeuronGroupHasPart(d, NeuronGroupMarks[i]) THEN 1 ELSE 0)
            /\ \A i, j \in DOMAIN NeuronGroupMarks :
                   /\ i < j
                   /\ NeuronGroupHasPart(d, NeuronGroupMarks[i])
                   /\ NeuronGroupHasPart(d, NeuronGroupMarks[j])
                   => NthPos(txt, NeuronGroupMarks[i], 1) < NthPos(txt, NeuronGroupMarks[j], 1)
            /\ IsInfix(<<"Dynamics:", "**", "\n\n">>
                           \o expand_equations(d.equations, github_md).txt, txt)
            /\ Count(txt, "For every ") = Len(runs)
            /\ Count(txt, " will be executed") = Len(runs)
            /\ \A k \in DOMAIN runs :
                   LET p == NthPos(txt, "For every ", k)
                       dt == render(runs[k].dt, github_md).txt
                       code == math_statements(runs[k].code, github_md).txt
                   IN  /\ p > NthPos(txt, "Run regularly", 1)
                       /\ SubSeq(txt, p + 1, p + Len(dt) + 1 + Len(code))
                              = dt \o <<" code: ">> \o code

\* expand_NeuronGroup on a dictionary with events, identifiers and two
\* run_regularly entries
C11_Witness ==
    /\ call.op = "expand_NeuronGroup" /\ github_md.set /\ ~Raised(call.res)
    /\ {"events", "identifiers", "run_regularly"} \subseteq DOMAIN call.arg
    /\ Len(call.arg.run_regularly) = 2
    /\ Truthy(call.arg.user_method)
    /\ Count(call.res.txt, "For every ") = 2

\* how often a chunk is to occur: once if the condition holds, else never
Once(cond) == IF cond THEN 1 ELSE 0

\* the listing of connector['i'] or connector['j'] after its heading chunk
ConnectorListing(heading, ind) ==
    IF ind.t = "str"
    THEN <<heading>> \o PluralOf(ind, "index").txt
             \o <<": ", " with generator syntax ", ind.s>>
    ELSE <<heading>> \o PluralOf(ind, "index").txt \o <<": ">> \o ConnectorIndices(ind).txt

IndexPhrases == {" to all members", " to no member", " on condition ", " to member"}

\* the index phrase by the value of initializer['index']: all members for True
\* and 'True', no member for False and 'False', the condition for another str,
\* the member(s) for anything else, a collection as its elements joined by ','
IndexPhraseByValue(index) ==
    IF index = PyBool(TRUE) \/ index = PyStr("True") THEN <<" to all members">>
    ELSE IF index = PyBool(FALSE) \/ index = PyStr("False") THEN <<" to no member">>
    ELSE IF index.t = "str" THEN <<" on condition ", index.s>>
    ELSE <<" to member">> \o Plural(index).txt \o <<" ">>
             \o (IF HasIter(index) THEN JoinInts(",", Items(index)).txt
                 ELSE <<Str(index)>>)

\* C13 as stated: expand_initializer adds exactly one index phrase, chosen by the
\* value of initializer['index']: ' to all members' for True and 'True',
\* ' to no member' for False and 'False', ' on condition <index>' for any other
\* str, and ' to member(s) <indices>' for any other value, a collection being
\* listed as its elements joined by ','.
C13_IndexPhrase ==
    call.op = "expand_initializer" /\ github_md.set =>
        /\ ~Raised(call.res)
        /\ Cardinality({p \in DOMAIN call.res.txt : call.res.txt[p] \in IndexPhrases}) = 1
        /\ IsInfix(<<" initialized with ">> \o render(call.arg.value, github_md).txt
                       \o IndexPhraseByValue(call.arg.index),
                   call.res.txt)

\* C14 as stated: what prepare_math_statements returns is the rendered statements
\* joined by ', ' with no separator after the last one: for every input, also
\* one with an empty segment and, with separate=True, a segment without '=', it
\* does not end with ', ' and has no empty item between two separators.
C14_JoinedStatements ==
    call.op = "prepare_math_statements" /\ github_md.set /\ ~Raised(call.res) =>
        LET txt == call.res.txt
        IN  /\ txt # <<>> => txt[Len(txt)] # ", "
            /\ \A p \in 1..(Len(txt) - 1) : ~(txt[p] = ", " /\ txt[p + 1] = ", ")

\* an assignment operator ('=', '+=' or '-=') starts at piece p of a segment
OperatorAt(segment, p) ==
    \/ segment[p] = "="
    \/ segment[p] \in {"+", "-"} /\ p < Len(segment) /\ segment[p + 1] = "="

\* a segment with an assignment as rendered-lhs, operator, rendered-rhs: the
\* left-hand side is what stands before the first operator, the right-hand side
\* all that follows it
RenderedAssignment(segment, equals, gm) ==
    LET p == CHOOSE q \in DOMAIN segment :
                 OperatorAt(segment, q) /\ \A r \in 1..(q - 1) : ~OperatorAt(segment, r)
        width == IF segment[p] = "=" THEN 1 ELSE 2
    IN  render(Text(SubSeq(segment, 1, p - 1)), gm).txt
            \o <<IF HasOp(segment, "+") THEN "+="
                 ELSE IF HasOp(segment, "-") THEN "-=" ELSE equals>>
            \o render(Text(SubSeq(segment, p + width, Len(segment))), gm).txt

\* C15 as stated: with separate=True prepare_math_statements renders every
\* segment that has an assignment as rendered-lhs, operator, rendered-rhs and
\* does not raise; the operator is '+=' if the segment has '+=', else '-=' if it
\* has '-=', else `equals`; so for every segment with at least one '=', also
\* when its right-hand side has an '=' of its own ('==', '>=', '<=').
C15_AssignmentRendered ==
    call.op = "prepare_math_statements" /\ github_md.set /\ call.arg.separate =>
        /\ ~Raised(call.res)
        /\ LET list_eqns == SplitLines(call.arg.statements, <<>>)
           IN  \A k \in DOMAIN list_eqns :
                   HasEq(list_eqns[k]) =>
                       IsInfix(RenderedAssignment(list_eqns[k], "&#8592;", github_md),
                               call.res.txt)

\* the key of the other of the two monitors
OtherMonitor(key) == IF key = "spikemonitor" THEN "eventmonitor" ELSE "spikemonitor"

\* the section heading of a key, as create_md_string words it
MonitorHeading(key, brian_verbose) ==
    IF brian_verbose THEN func_map[key].hb ELSE func_map[key].h

\* a text with every chunk equal to `old` replaced by `new`
Replaced(txt, old, new) == [p \in DOMAIN txt |-> IF txt[p] = old THEN new ELSE txt[p]]

\* C16: expand_SpikeMonitor and expand_EventMonitor return the same text or raise
\* the same error for every monitor dictionary, and what create_md_string
\* returns for a 'spikemonitor' component is what it returns for an
\* 'eventmonitor' component with the same dictionary, but for the heading.
C16_MonitorsEquivalent ==
    /\ call.op \in {"expand_SpikeMonitor", "expand_EventMonitor"} =>
           /\ call.res = expand_SpikeMonitor(call.arg, github_md)
           /\ call.res = expand_EventMonitor(call.arg, github_md)
    /\ call.op = "create_md_string" /\ call.arg.net_dict \in MonitorNets =>
           LET comp == call.arg.net_dict[1].components[1]
               other == <<Run("10. ms", <<[k |-> OtherMonitor(comp.k), v |-> comp.v]>>)>>
               r == OverallString(other, call.arg.brian_verbose, github_md)
           IN  /\ r.err = call.res.err
               /\ r.txt = Replaced(call.res.txt,
                                   MonitorHeading(comp.k, call.arg.brian_verbose),
                                   MonitorHeading(OtherMonitor(comp.k),
                                                  call.arg.brian_verbose))

\* expand_SpikeMonitor returned the text of an event monitor that records two
\* members
C16_Witness ==
    /\ call.op = "expand_SpikeMonitor" /\ github_md.set /\ ~Raised(call.res)
    /\ call.arg.record = PyArr(<<0, 1>>)
    /\ IsInfix(<<" when event ", "**", "spike", "**", " is triggered.">>, call.res.txt)

\* the methods that are passed a standard dictionary
DictionaryMethods ==
    {"expand_NeuronGroup", "expand_Synapses", "expand_SpikeGeneratorGroup",
     "expand_connector", "expand_initializer"}

====
